---- MODULE Spec2Model ----
(***************************************************************************)
(* Transcription of a multi-phase optimal control problem into a flat NLP  *)
(* (biorbd_optim): the passes of OptimalControlProgram.__init__ and the    *)
(* constraint passes of the Constraint class.                              *)
(*                                                                         *)
(* Symbolic casadi vectors are modelled by the sequence of their rows;     *)
(* every row or bound value is a small record naming where it comes from.  *)
(* A raised exception is modelled by err # "none" and pc = "error".        *)
(*                                                                         *)
(* optimal_control_program.py names the class of constraints.py            *)
(* ConstraintFunction; constraints.py defines one class, Constraint, with  *)
(* continuity_constraint and add_constraints and without add. The name     *)
(* ConstraintFunction is read as that class: its continuity_constraint is  *)
(* the one __init__ calls at line 148, and the call of its add at line 151 *)
(* raises AttributeError. Constraint.add_constraints is a static method of *)
(* two arguments (ocp, nlp); it is modelled as one call on a phase dict    *)
(* of a problem whose continuity rows are built. The dict keys it reads    *)
(* and __init__ does not store ("constraints" when the constraints         *)
(* argument is empty, "dof_mapping") are inputs: held or not.              *)
(***************************************************************************)
EXTENDS Integers, Sequences, FiniteSets, TLC

\* ------------------------------------------------------------------ bounds
MaxPhases == 2      \* number of phases of the problem
MaxNx == 2          \* state dimension of a phase
MaxNu == 2          \* control dimension of a phase
MaxNs == 3          \* shooting intervals of a phase
MaxObj == 2         \* objective terms declared per phase
MaxCons == 2        \* constraint entries read by one call of add_constraints

\* ------------------------------------------------------------- vocabulary
Types == {"MARKERS_TO_PAIR", "PROPORTIONAL_Q", "PROPORTIONAL_CONTROL",
          "CONTACT_FORCE_GREATER_THAN"}

Instants == {"START", "MID", "INTERMEDIATES", "END", "ALL"}

OdeSolvers == {"RK", "COLLOCATION", "CVODES"}

ObjectiveTypes == {"Mayer.MINIMIZE_TIME", "Lagrange.MINIMIZE_TIME", "OTHER"}

\* a policy of a proportional constraint is one triple, or a tuple of triples
Policies == {"triple", "tuple_of_2_triples"}

\* elem = (type, instant, policy)
Entries ==
    {e \in [type : Types, instant : Instants,
            policy : Policies \cup {"marker_pair", "contact"}] :
        /\ e.type = "MARKERS_TO_PAIR" <=> e.policy = "marker_pair"
        /\ e.type = "CONTACT_FORCE_GREATER_THAN" <=> e.policy = "contact"}

\* ---------------------------------------------------------------- helpers
SeqsUpTo(S, n) == UNION {[1..k -> S] : k \in 0..n}

Repeat(x, n) == [j \in 1..n |-> x]

Tagged(name, n) == [j \in 1..n |-> [src |-> name, j |-> j]]

RECURSIVE Sum(_, _)
Sum(f, n) == IF n = 0 THEN 0 ELSE f[n] + Sum(f, n - 1)

\* list[off : off + n] = vals, python slice assignment (off is 0-based)
SliceAssign(list, off, n, vals) ==
    LET lo == IF off < Len(list) THEN off ELSE Len(list)
        hi == IF off + n < Len(list) THEN off + n ELSE Len(list)
    IN SubSeq(list, 1, lo) \o vals \o SubSeq(list, hi + 1, Len(list))

\* list[start : stop], python slice of a list (0-based, stop excluded)
PySlice(list, start, stop) ==
    LET n == Len(list)
        norm(v) == IF v < 0 THEN (IF v + n < 0 THEN 0 ELSE v + n)
                   ELSE (IF v > n THEN n ELSE v)
    IN SubSeq(list, norm(start) + 1, norm(stop))

VARIABLES
    pc,                  \* the pass OptimalControlProgram.__init__ is at
    idx,                 \* the phase the current pass is at (1-based)
    nlp,                 \* ocp.nlp: one record per phase
    V,                   \* ocp.V: the decision vector
    V_bounds,            \* ocp.V_bounds: [min, max]
    V_init,              \* ocp.V_init.init
    time_args,           \* initial_time_guess, time_min, time_max of __init__
    g,                   \* ocp.g: the constraint vector
    g_bounds,            \* ocp.g_bounds: [min, max]
    is_cyclic_constraint,
    err                  \* the exception raised, "none" if none

vars == <<pc, idx, nlp, V, V_bounds, V_init, time_args, g, g_bounds,
          is_cyclic_constraint, err>>

nb_phases == Len(nlp)

\* ------------------------------------------------------ the problem given
\* one phase as the caller declares it: problem_type sets nx and nu;
\* keys: which of the entries "model", "x", "u", "X", "U", "f_ext",
\* "constraints", "dof_mapping" the dict of the phase holds
PhaseInputs(objLists) ==
    [nx : 1..MaxNx, nu : 1..MaxNu, ns : 1..MaxNs,
     objective_functions : objLists,
     tf : {"number"}, ode_solver : {"unset"}, dynamics : {"unset"},
     X : {<<>>}, U : {<<>>}, constraints : {<<>>},
     keys : {{"model", "x", "u"}}]

Problems(objLists) == UNION {[1..P -> PhaseInputs(objLists)] : P \in 1..MaxPhases}

NoTimeArgs == [guess |-> <<>>, tmin |-> <<>>, tmax |-> <<>>]

Init ==
    /\ nlp \in Problems(SeqsUpTo(ObjectiveTypes, MaxObj))
    /\ pc = "init_phase_time"
    /\ idx = 1
    /\ V = <<>>
    /\ V_bounds = [min |-> <<>>, max |-> <<>>]
    /\ V_init = <<>>
    /\ time_args = NoTimeArgs
    /\ g = <<>>
    /\ g_bounds = [min |-> <<>>, max |-> <<>>]
    /\ is_cyclic_constraint = FALSE
    /\ err = "none"

\* ------------------------------------------------------ __init_phase_time
IsMinimizeTime(obj_fun) ==
    obj_fun = "Mayer.MINIMIZE_TIME" \/ obj_fun = "Lagrange.MINIMIZE_TIME"

\* the loop over the objective terms of phase i; acc.tf is phase_time[i]
RECURSIVE ScanObjectives(_, _, _)
ScanObjectives(objs, i, acc) ==
    IF objs = <<>> THEN acc
    ELSE ScanObjectives(Tail(objs), i,
            IF IsMinimizeTime(Head(objs))
            THEN [tf |-> "MX",
                  guess |-> Append(acc.guess, [src |-> acc.tf, j |-> i]),
                  tmin |-> Append(acc.tmin, [src |-> "time_min", j |-> i]),
                  tmax |-> Append(acc.tmax, [src |-> "time_max", j |-> i])]
            ELSE acc)

\* the loop over the phases, from phase i on; acc.tf is the list phase_time
RECURSIVE InitPhaseTimeFrom(_, _, _)
InitPhaseTimeFrom(nlps, i, acc) ==
    IF i > Len(nlps) THEN acc
    ELSE LET r == ScanObjectives(nlps[i].objective_functions, i,
                     [tf |-> "number", guess |-> acc.guess,
                      tmin |-> acc.tmin, tmax |-> acc.tmax])
         IN InitPhaseTimeFrom(nlps, i + 1,
                [tf |-> Append(acc.tf, r.tf), guess |-> r.guess,
                 tmin |-> r.tmin, tmax |-> r.tmax])

InitPhaseTimeOf(nlps) ==
    InitPhaseTimeFrom(nlps, 1,
        [tf |-> <<>>, guess |-> <<>>, tmin |-> <<>>, tmax |-> <<>>])

InitPhaseTime ==
    /\ pc = "init_phase_time"
    /\ LET r == InitPhaseTimeOf(nlp)
       IN /\ nlp' = [i \in 1..nb_phases |-> [nlp[i] EXCEPT !.tf = r.tf[i]]]
          /\ time_args' = [guess |-> r.guess, tmin |-> r.tmin, tmax |-> r.tmax]
    /\ pc' = "nodes"
    /\ idx' = 1
    /\ UNCHANGED <<V, V_bounds, V_init, g, g_bounds, is_cyclic_constraint, err>>

\* ------------------------------ __define_multiple_shooting_nodes_per_phase
PhaseSize(p) == p.nx * (p.ns + 1) + p.nu * p.ns

\* V.nz[offset : offset + n], the symbols of node k
Handle(offset, n, k) == [off |-> offset, len |-> n, node |-> k]

\* iterations k..ns-1 of the loop over the shooting nodes
RECURSIVE NodeLoop(_, _, _)
NodeLoop(p, k, st) ==
    IF k >= p.ns THEN st
    ELSE LET xb == IF k = 0 THEN "X_bounds.first_node" ELSE "X_bounds"
             ub == IF k = 0 THEN "U_bounds.first_node" ELSE "U_bounds"
             o1 == st.offset
             o2 == st.offset + p.nx
         IN NodeLoop(p, k + 1,
              [X |-> Append(st.X, Handle(o1, p.nx, k)),
               U |-> Append(st.U, Handle(o2, p.nu, k)),
               min |-> SliceAssign(SliceAssign(st.min, o1, p.nx, Tagged(xb, p.nx)),
                                   o2, p.nu, Tagged(ub, p.nu)),
               max |-> SliceAssign(SliceAssign(st.max, o1, p.nx, Tagged(xb, p.nx)),
                                   o2, p.nu, Tagged(ub, p.nu)),
               init |-> SliceAssign(SliceAssign(st.init, o1, p.nx, Tagged("X_init", p.nx)),
                                    o2, p.nu, Tagged("U_init", p.nu)),
               offset |-> o2 + p.nu])

\* mutant: the final state block takes the interior bounds
PhaseLayoutInteriorLast(p) ==
    LET nV == PhaseSize(p)
        zero == Repeat([src |-> "zero", j |-> 0], nV)
        st == NodeLoop(p, 0, [X |-> <<>>, U |-> <<>>, min |-> zero, max |-> zero,
                              init |-> zero, offset |-> 0])
    IN [X |-> Append(st.X, Handle(st.offset, p.nx, p.ns)),
        U |-> st.U,
        min |-> SliceAssign(st.min, st.offset, p.nx, Tagged("X_bounds", p.nx)),
        max |-> SliceAssign(st.max, st.offset, p.nx, Tagged("X_bounds", p.nx)),
        init |-> SliceAssign(st.init, st.offset, p.nx, Tagged("X_init", p.nx)),
        V |-> [j \in 1..nV |-> [sym |-> "V", ph |-> 0, j |-> j]]]

PhaseLayout(p) ==
    LET nV == PhaseSize(p)
        zero == Repeat([src |-> "zero", j |-> 0], nV)
        st == NodeLoop(p, 0, [X |-> <<>>, U |-> <<>>, min |-> zero, max |-> zero,
                              init |-> zero, offset |-> 0])
    IN [X |-> Append(st.X, Handle(st.offset, p.nx, p.ns)),
        U |-> st.U,
        min |-> SliceAssign(st.min, st.offset, p.nx, Tagged("X_bounds.last_node", p.nx)),
        max |-> SliceAssign(st.max, st.offset, p.nx, Tagged("X_bounds.last_node", p.nx)),
        init |-> SliceAssign(st.init, st.offset, p.nx, Tagged("X_init", p.nx)),
        V |-> [j \in 1..nV |-> [sym |-> "V", ph |-> 0, j |-> j]]]

DefineMultipleShootingNodes ==
    /\ pc = "nodes"
    /\ LET lay == PhaseLayout(nlp[idx])
       IN /\ nlp' = [nlp EXCEPT ![idx].X = lay.X, ![idx].U = lay.U,
                               ![idx].keys = @ \cup {"X", "U"}]
          /\ V' = V \o [j \in 1..Len(lay.V) |-> [lay.V[j] EXCEPT !.ph = idx]]
          /\ V_bounds' = [min |-> V_bounds.min \o lay.min,
                          max |-> V_bounds.max \o lay.max]
          /\ V_init' = V_init \o lay.init
    /\ IF idx < nb_phases
       THEN pc' = pc /\ idx' = idx + 1
       ELSE pc' = "variable_time" /\ idx' = 1
    /\ UNCHANGED <<time_args, g, g_bounds, is_cyclic_constraint, err>>

\* -------------------------------------------------- __define_variable_time
\* Bounds.expand and InitialConditions.expand concatenate; regulation(nV)
\* passes, since minimum, maximum and initial_guess have one entry per
\* minimize-time term each (nV = len(initial_guess)).
RECURSIVE TimeParameters(_, _)
TimeParameters(nlps, i) ==
    IF i > Len(nlps) THEN <<>>
    ELSE (IF nlps[i].tf = "MX"
          THEN <<[sym |-> "time_phase", ph |-> i, j |-> 0]>> ELSE <<>>)
         \o TimeParameters(nlps, i + 1)

DefineVariableTime ==
    /\ pc = "variable_time"
    /\ V' = V \o TimeParameters(nlp, 1)
    /\ V_bounds' = [min |-> V_bounds.min \o time_args.tmin,
                    max |-> V_bounds.max \o time_args.tmax]
    /\ V_init' = V_init \o time_args.guess
    /\ pc' = "dynamics"
    /\ idx' = 1
    /\ UNCHANGED <<nlp, time_args, g, g_bounds, is_cyclic_constraint, err>>

\* ------------------------------- __init__, lines 137-143: the dynamics pass
\* mutant: the CVODES branch does not test the duration
PrepareDynamicsCvodesUnchecked(p) ==
    IF p.ode_solver = "RK" THEN [dynamics |-> "RK4", err |-> "none"]
    ELSE IF p.ode_solver = "COLLOCATION"
    THEN (IF p.tf = "MX"
          THEN [dynamics |-> p.dynamics,
                err |-> "RuntimeError: OdeSolver.COLLOCATION cannot be used while optimizing the time parameter"]
          ELSE [dynamics |-> "collocation", err |-> "none"])
    ELSE IF p.ode_solver = "CVODES"
    THEN [dynamics |-> "cvodes", err |-> "none"]
    ELSE [dynamics |-> p.dynamics, err |-> "none"]

\* __prepare_dynamics: the integrator of the phase, or the error it raises
PrepareDynamics(p) ==
    IF p.ode_solver = "RK" THEN [dynamics |-> "RK4", err |-> "none"]
    ELSE IF p.ode_solver = "COLLOCATION"
    THEN (IF p.tf = "MX"
          THEN [dynamics |-> p.dynamics,
                err |-> "RuntimeError: OdeSolver.COLLOCATION cannot be used while optimizing the time parameter"]
          ELSE [dynamics |-> "collocation", err |-> "none"])
    ELSE IF p.ode_solver = "CVODES"
    THEN (IF p.tf = "MX"
          THEN [dynamics |-> p.dynamics,
                err |-> "RuntimeError: OdeSolver.CVODES cannot be used while optimizing the time parameter"]
          ELSE [dynamics |-> "cvodes", err |-> "none"])
    ELSE [dynamics |-> p.dynamics, err |-> "none"]

\* mutant: the test of line 141 compares nu only
SameSizeAsFirstNuOnly(nlps, i) ==
    ~ (nlps[1].nu # nlps[i].nu)

\* the test of line 141 on phase i
SameSizeAsFirst(nlps, i) ==
    ~ (nlps[1].nx # nlps[i].nx \/ nlps[1].nu # nlps[i].nu)

\* one iteration of the loop of line 140; the phase's entry of the ode_solver
\* argument is read here
DynamicsOfPhase ==
    /\ pc = "dynamics"
    /\ \E ode \in OdeSolvers :
         LET p == [nlp[idx] EXCEPT !.ode_solver = ode]
             r == PrepareDynamics(p)
         IN IF ~ SameSizeAsFirst(nlp, idx)
            THEN /\ nlp' = [nlp EXCEPT ![idx] = p]
                 /\ err' = "RuntimeError: Dynamics with different nx or nu is not supported yet"
                 /\ pc' = "error"
                 /\ idx' = idx
            ELSE /\ nlp' = [nlp EXCEPT ![idx] = [p EXCEPT !.dynamics = r.dynamics]]
                 /\ err' = r.err
                 /\ IF r.err # "none" THEN pc' = "error" /\ idx' = idx
                    ELSE IF idx < nb_phases THEN pc' = pc /\ idx' = idx + 1
                    ELSE pc' = "continuity" /\ idx' = 1
    /\ UNCHANGED <<V, V_bounds, V_init, time_args, g, g_bounds, is_cyclic_constraint>>

\* ------------------------------------------------- continuity_constraint
Row(kind, ph, node, e, r) ==
    [kind |-> kind, ph |-> ph, node |-> node, e |-> e, row |-> r]

Rows(kind, ph, node, e, n) == [r \in 1..n |-> Row(kind, ph, node, e, r)]

\* n times: g_bounds.min.append(0); g_bounds.max.append(0)
AppendBounds(b, n) == [min |-> b.min \o Repeat(0, n), max |-> b.max \o Repeat(0, n)]

\* the rows of end_node - X[k + 1] for the nodes k..ns-1 of phase i
RECURSIVE IntraPhase(_, _, _, _)
IntraPhase(nlps, i, k, st) ==
    IF k >= nlps[i].ns THEN st
    ELSE IntraPhase(nlps, i, k + 1,
            [g |-> st.g \o Rows("intra", i, k, 0, nlps[i].X[k + 2].len),
             b |-> AppendBounds(st.b, nlps[i].nx),
             err |-> "none"])

RECURSIVE IntraPhases(_, _, _)
IntraPhases(nlps, i, st) ==
    IF i > Len(nlps) THEN st
    ELSE IntraPhases(nlps, i + 1, IntraPhase(nlps, i, 0, st))

\* the loop over the boundaries i..P-1 (phase i and phase i + 1)
RECURSIVE InterPhases(_, _, _)
InterPhases(nlps, i, st) ==
    IF i > Len(nlps) - 1 THEN st
    ELSE IF nlps[i].nx # nlps[i + 1].nx
    THEN [st EXCEPT !.err = "RuntimeError: Phase constraints without same nx is not supported yet"]
    ELSE InterPhases(nlps, i + 1,
            [g |-> st.g \o Rows("inter", i, nlps[i].ns, 0, nlps[i].X[Len(nlps[i].X)].len),
             b |-> AppendBounds(st.b, nlps[i].nx),
             err |-> "none"])

\* mutant: the cyclic rows are appended whether or not they are requested
CyclicAlways(nlps, cyclic, st) ==
    IF nlps[1].nx # nlps[Len(nlps)].nx
    THEN [st EXCEPT !.err = "RuntimeError: Cyclic constraint without same nx is not supported yet"]
    ELSE LET last == nlps[Len(nlps)]
         IN [g |-> st.g \o Rows("cyclic", Len(nlps), last.ns, 0, last.X[Len(last.X)].len),
             b |-> AppendBounds(st.b, nlps[1].nx),
             err |-> "none"]

Cyclic(nlps, cyclic, st) ==
    IF ~ cyclic THEN st
    ELSE IF nlps[1].nx # nlps[Len(nlps)].nx
    THEN [st EXCEPT !.err = "RuntimeError: Cyclic constraint without same nx is not supported yet"]
    ELSE LET last == nlps[Len(nlps)]
         IN [g |-> st.g \o Rows("cyclic", Len(nlps), last.ns, 0, last.X[Len(last.X)].len),
             b |-> AppendBounds(st.b, nlps[1].nx),
             err |-> "none"]

\* the whole of continuity_constraint on [g, b (g_bounds), err]
ContinuityOf(nlps, cyclic, st) ==
    LET inter == InterPhases(nlps, 1, IntraPhases(nlps, 1, st))
    IN IF inter.err # "none" THEN inter ELSE Cyclic(nlps, cyclic, inter)

ContinuityConstraint ==
    /\ pc = "continuity"
    /\ \E cyclic \in BOOLEAN :
         LET r == ContinuityOf(nlp, cyclic, [g |-> g, b |-> g_bounds, err |-> "none"])
         IN /\ is_cyclic_constraint' = cyclic
            /\ g' = r.g
            /\ g_bounds' = r.b
            /\ err' = r.err
            /\ pc' = IF r.err # "none" THEN "error" ELSE "constraints"
    /\ idx' = 1
    /\ UNCHANGED <<nlp, V, V_bounds, V_init, time_args>>

\* --------------------------------------------------------- add_constraints
\* the nodes x, u an instant selects in phase p, or the error raised
SelectNodes(p, instant) ==
    IF instant = "START"
    THEN (IF Len(p.U) = 0 THEN [x |-> <<>>, u |-> <<>>, err |-> "IndexError"]
          ELSE [x |-> <<p.X[1]>>, u |-> <<p.U[1]>>, err |-> "none"])
    ELSE IF instant = "MID"
    \* nlp is a dict (optimal_control_program.py line 76): nlp.ns is no item access
    THEN [x |-> <<>>, u |-> <<>>,
          err |-> "AttributeError: 'dict' object has no attribute 'ns'"]
    ELSE IF instant = "INTERMEDIATES"
    THEN [x |-> PySlice(p.X, 1, p.ns - 1), u |-> PySlice(p.U, 1, p.ns - 1),
          err |-> "none"]
    ELSE IF instant = "END"
    THEN [x |-> <<p.X[p.ns + 1]>>, u |-> <<>>, err |-> "none"]
    ELSE [x |-> p.X, u |-> p.U, err |-> "none"]

\* the loop "for x in X" of __markers_to_pair: marker1 - marker2 has 3 rows
RECURSIVE MarkersToPairLoop(_, _, _, _)
\* mutant: the loop of the bounds runs twice instead of 3 times
MarkersToPairTwoBounds(i, e, X, st) ==
    IF X = <<>> THEN st
    ELSE MarkersToPairLoop(i, e, Tail(X),
            [g |-> st.g \o Rows("MARKERS_TO_PAIR", i, Head(X).node, e, 3),
             b |-> AppendBounds(st.b, 2),
             err |-> "none"])

\* mutant: the loop over the nodes stops after the first node
MarkersToPairFirstNodeOnly(i, e, X, st) ==
    IF X = <<>> THEN st
    ELSE [g |-> st.g \o Rows("MARKERS_TO_PAIR", i, Head(X).node, e, 3),
          b |-> AppendBounds(st.b, 3),
          err |-> "none"]

MarkersToPairLoop(i, e, X, st) ==
    IF X = <<>> THEN st
    ELSE MarkersToPairLoop(i, e, Tail(X),
            [g |-> st.g \o Rows("MARKERS_TO_PAIR", i, Head(X).node, e, 3),
             b |-> AppendBounds(st.b, 3),
             err |-> "none"])

\* __markers_to_pair: line 95 reads nlp["dof_mapping"] before the loop
MarkersToPair(p, i, e, X, st) ==
    IF "dof_mapping" \notin p.keys
    THEN [st EXCEPT !.err = "KeyError: 'dof_mapping'"]
    ELSE MarkersToPairLoop(i, e, X, st)

\* the loop "for v in V" of __proportional_variable, for the triple t
RECURSIVE ProportionalLoop(_, _, _, _, _, _)
ProportionalLoop(kind, i, e, t, W, st) ==
    IF W = <<>> THEN st
    ELSE ProportionalLoop(kind, i, e, t, Tail(W),
            [g |-> Append(st.g, Row(kind, i, Head(W).node, e, t)),
             b |-> AppendBounds(st.b, 1),
             err |-> "none"])

\* __proportional_variable: the first pass of the loop reads
\* nlp["dof_mapping"] (lines 117, 123)
ProportionalVariable(p, kind, i, e, W, policy, st) ==
    IF W # <<>> /\ "dof_mapping" \notin p.keys
    THEN [st EXCEPT !.err = "KeyError: 'dof_mapping'"]
    ELSE IF policy = "tuple_of_2_triples"
    THEN ProportionalLoop(kind, i, e, 2, W, ProportionalLoop(kind, i, e, 1, W, st))
    ELSE ProportionalLoop(kind, i, e, 1, W, st)

\* __contact_force_inequality: the forces are computed and dropped
ContactForceInequality(i, e, X, U, policy, st) == st

\* mutant: the two tests of Instant.END are missing
AddOneConstraintNoEndTest(p, i, e, elem, st) ==
    LET sel == SelectNodes(p, elem.instant)
    IN IF sel.err # "none" THEN [st EXCEPT !.err = sel.err]
       ELSE IF elem.type = "MARKERS_TO_PAIR"
       THEN MarkersToPair(p, i, e, sel.x, st)
       ELSE IF elem.type = "PROPORTIONAL_Q"
       THEN ProportionalVariable(p, "PROPORTIONAL_Q", i, e, sel.x, elem.policy, st)
       ELSE IF elem.type = "PROPORTIONAL_CONTROL"
       THEN ProportionalVariable(p, "PROPORTIONAL_CONTROL", i, e, sel.u, elem.policy, st)
       ELSE IF elem.type = "CONTACT_FORCE_GREATER_THAN"
       THEN ContactForceInequality(i, e, sel.x, sel.u, elem.policy, st)
       ELSE st

\* one iteration of the loop of add_constraints: entry elem, the e-th of phase i
AddOneConstraint(p, i, e, elem, st) ==
    LET sel == SelectNodes(p, elem.instant)
    IN IF sel.err # "none" THEN [st EXCEPT !.err = sel.err]
       ELSE IF elem.type = "MARKERS_TO_PAIR"
       THEN MarkersToPair(p, i, e, sel.x, st)
       ELSE IF elem.type = "PROPORTIONAL_Q"
       THEN ProportionalVariable(p, "PROPORTIONAL_Q", i, e, sel.x, elem.policy, st)
       ELSE IF elem.type = "PROPORTIONAL_CONTROL"
       THEN (IF elem.instant = "END"
             THEN [st EXCEPT !.err = "RuntimeError: A proportional control does not make sense at the last node (Instant.END)"]
             ELSE ProportionalVariable(p, "PROPORTIONAL_CONTROL", i, e, sel.u, elem.policy, st))
       ELSE IF elem.type = "CONTACT_FORCE_GREATER_THAN"
       THEN (IF elem.instant = "END"
             THEN [st EXCEPT !.err = "RuntimeError: Instant.END is used even though there is no control u at last node"]
             ELSE ContactForceInequality(i, e, sel.x, sel.u, elem.policy, st))
       ELSE st

\* the number of constraint entries read so far, over all the phases
EntriesRead == Sum([i \in 1..nb_phases |-> Len(nlp[i].constraints)], nb_phases)

\* lines 149-151 of __init__: with a constraints argument that is not empty,
\* the first call ConstraintFunction.add(self, self.nlp[0]) raises, the class
\* having no attribute add; ocp.g keeps the continuity rows. With an empty
\* one the loop is skipped and the problem is constructed.
ConstraintFunctionAdd ==
    /\ pc = "constraints"
    /\ \E given \in BOOLEAN :
         IF given
         \* __init_penality stored the entries of each phase at line 80
         THEN /\ nlp' = [i \in 1..nb_phases |->
                          [nlp[i] EXCEPT !.keys = @ \cup {"constraints"}]]
              /\ pc' = "error"
              /\ err' = "AttributeError: type object 'Constraint' has no attribute 'add'"
         ELSE /\ nlp' = nlp
              /\ pc' = "constructed"
              /\ err' = err
    /\ idx' = 1
    /\ UNCHANGED <<V, V_bounds, V_init, time_args, g, g_bounds,
                   is_cyclic_constraint>>

\* Constraint.add_constraints(ocp, nlp[idx]): line 45 reads
\* nlp["constraints"], and the next entry is read and expanded
AddConstraint ==
    /\ pc = "add_constraints"
    /\ IF "constraints" \notin nlp[idx].keys
       THEN /\ pc' = "error"
            /\ err' = "KeyError: 'constraints'"
            /\ UNCHANGED <<nlp, g, g_bounds>>
       ELSE /\ EntriesRead < MaxCons
            /\ \E elem \in Entries :
                 LET e == Len(nlp[idx].constraints) + 1
                     r == AddOneConstraint(nlp[idx], idx, e, elem,
                                           [g |-> g, b |-> g_bounds, err |-> "none"])
                 IN /\ nlp' = [nlp EXCEPT ![idx].constraints = Append(@, elem)]
                    /\ g' = r.g
                    /\ g_bounds' = r.b
                    /\ err' = r.err
                    /\ pc' = IF r.err # "none" THEN "error" ELSE pc
    /\ UNCHANGED <<idx, V, V_bounds, V_init, time_args, is_cyclic_constraint>>

\* the entries of nlp[idx]["constraints"] are exhausted: the loop of line 45
\* ends and add_constraints returns
EndConstraints ==
    /\ pc = "add_constraints"
    /\ "constraints" \in nlp[idx].keys
    /\ pc' = "done"
    /\ UNCHANGED <<idx, nlp, V, V_bounds, V_init, time_args, g, g_bounds,
                   is_cyclic_constraint, err>>

\* ---------------------------------------------------------- specifications
\* __init__ from its arguments to the constraint passes (lines 65-151)
Next ==
    \/ InitPhaseTime
    \/ DefineMultipleShootingNodes
    \/ DefineVariableTime
    \/ DynamicsOfPhase
    \/ ContinuityConstraint
    \/ ConstraintFunctionAdd

Spec == Init /\ [][Next]_vars

\* the constraint passes (lines 146-151), from the problems without objective
\* terms whose phases passed the test of line 141, integrated with RK4
RECURSIVE Concat(_, _)
Concat(f, n) == IF n = 0 THEN <<>> ELSE Concat(f, n - 1) \o f[n]

InitConstraints ==
    /\ \E prob \in Problems({<<>>}) :
         LET lay == [i \in 1..Len(prob) |-> PhaseLayout(prob[i])]
             P == Len(prob)
         IN /\ \A i \in 1..P : SameSizeAsFirst(prob, i)
            /\ nlp = [i \in 1..P |->
                        [prob[i] EXCEPT !.X = lay[i].X, !.U = lay[i].U,
                                        !.keys = @ \cup {"X", "U"},
                                        !.ode_solver = "RK", !.dynamics = "RK4"]]
            /\ V = Concat([i \in 1..P |->
                     [j \in 1..Len(lay[i].V) |-> [lay[i].V[j] EXCEPT !.ph = i]]], P)
            /\ V_bounds = [min |-> Concat([i \in 1..P |-> lay[i].min], P),
                           max |-> Concat([i \in 1..P |-> lay[i].max], P)]
            /\ V_init = Concat([i \in 1..P |-> lay[i].init], P)
    /\ pc = "continuity"
    /\ idx = 1
    /\ time_args = NoTimeArgs
    /\ g = <<>>
    /\ g_bounds = [min |-> <<>>, max |-> <<>>]
    /\ is_cyclic_constraint = FALSE
    /\ err = "none"

NextConstraints ==
    \/ ContinuityConstraint
    \/ ConstraintFunctionAdd

SpecConstraints == InitConstraints /\ [][NextConstraints]_vars

\* the arguments (ocp, nlp) of Constraint.add_constraints: a problem as line
\* 151 finds it, its continuity rows built, each phase dict holding or not
\* the keys "constraints" and "dof_mapping"; nlp is the dict of phase idx
InitAddConstraints ==
    /\ \E prob \in Problems({<<>>}), cyclic \in BOOLEAN :
         \E held \in [1..Len(prob) -> SUBSET {"constraints", "dof_mapping"}] :
           LET lay == [i \in 1..Len(prob) |-> PhaseLayout(prob[i])]
               P == Len(prob)
               nlps == [i \in 1..P |->
                          [prob[i] EXCEPT !.X = lay[i].X, !.U = lay[i].U,
                                          !.keys = @ \cup {"X", "U"} \cup held[i],
                                          !.ode_solver = "RK", !.dynamics = "RK4"]]
               r == ContinuityOf(nlps, cyclic,
                                 [g |-> <<>>, b |-> [min |-> <<>>, max |-> <<>>],
                                  err |-> "none"])
           IN /\ \A i \in 1..P : SameSizeAsFirst(prob, i)
              /\ nlp = nlps
              /\ V = Concat([i \in 1..P |->
                       [j \in 1..Len(lay[i].V) |-> [lay[i].V[j] EXCEPT !.ph = i]]], P)
              /\ V_bounds = [min |-> Concat([i \in 1..P |-> lay[i].min], P),
                             max |-> Concat([i \in 1..P |-> lay[i].max], P)]
              /\ V_init = Concat([i \in 1..P |-> lay[i].init], P)
              /\ g = r.g
              /\ g_bounds = r.b
              /\ is_cyclic_constraint = cyclic
              /\ idx \in 1..P
    /\ pc = "add_constraints"
    /\ time_args = NoTimeArgs
    /\ err = "none"

\* one call of add_constraints
NextAddConstraints ==
    \/ AddConstraint
    \/ EndConstraints

SpecAddConstraints == InitAddConstraints /\ [][NextAddConstraints]_vars

\* ------------------------------------------- save, _get_a_reduced_ocp
\* del d[k1], d[k2], ...: the keys are deleted one after the other, and the
\* first one the dict does not hold raises KeyError
RECURSIVE DelKeys(_, _)
DelKeys(p, ks) ==
    IF ks = <<>> THEN [p |-> p, err |-> "none"]
    ELSE IF Head(ks) \notin p.keys
    THEN [p |-> p, err |-> "KeyError"]
    ELSE DelKeys([p EXCEPT !.keys = @ \ {Head(ks)},
                           !.X = IF Head(ks) = "X" THEN <<>> ELSE @,
                           !.U = IF Head(ks) = "U" THEN <<>> ELSE @],
                 Tail(ks))

\* the loop over reduced_ocp.nlp, from phase i on. copy(self) is shallow:
\* reduced_ocp.nlp is ocp.nlp, the list of the same dicts
RECURSIVE ReducePhases(_, _)
ReducePhases(nlps, i) ==
    IF i > Len(nlps) THEN [nlp |-> nlps, err |-> "none"]
    ELSE LET r == DelKeys([nlps[i] EXCEPT !.keys = @ \cup {"f_ext"}],
                          <<"model", "x", "u", "X", "U", "f_ext">>)
             after == [nlps EXCEPT ![i] = r.p]
         IN IF r.err # "none" THEN [nlp |-> after, err |-> r.err]
            ELSE ReducePhases(after, i + 1)

\* save(ocp, sol, name) on the constructed problem; the attributes deleted
\* from reduced_ocp (J, V, g, ...) stay on ocp. A save that raised leaves
\* pc = "save_failed".
Save ==
    /\ pc \in {"constructed", "saved"}
    /\ LET r == ReducePhases(nlp, 1)
       IN /\ nlp' = r.nlp
          /\ err' = r.err
          /\ pc' = IF r.err # "none" THEN "save_failed" ELSE "saved"
    /\ UNCHANGED <<idx, V, V_bounds, V_init, time_args, g, g_bounds,
                   is_cyclic_constraint>>

NextSave ==
    \/ NextConstraints
    \/ Save

\* the constraint passes, then any number of saves of the problem
SpecSave == InitConstraints /\ [][NextSave]_vars

\* the states of InitConstraints are states of __init__ at line 146
ReachesInitConstraints ==
    (/\ pc = "continuity"
     /\ \A i \in 1..nb_phases :
          nlp[i].objective_functions = <<>> /\ nlp[i].ode_solver = "RK")
    => InitConstraints

\* ------------------------------------------------------------- properties
\* the positions in g of the rows that the e-th entry of phase i appended
RowsOf(i, e) == {j \in 1..Len(g) : g[j].ph = i /\ g[j].e = e}

RowsOfKind(kind) == {j \in 1..Len(g) : g[j].kind = kind}

NodesOf(i, e) == {g[j].node : j \in RowsOf(i, e)}

\* the entries read so far, as (phase, position in the phase's list)
Processed == {ie \in (1..nb_phases) \X (1..MaxCons + 1) :
                ie[2] <= Len(nlp[ie[1]].constraints)}

EntryOf(ie) == nlp[ie[1]].constraints[ie[2]]

\* the entry that raised: the last one read
Raised(ie) == pc = "error" /\ ie[1] = idx /\ ie[2] = Len(nlp[idx].constraints)

ZeroBounds(J) == \A j \in J : g_bounds.min[j] = 0 /\ g_bounds.max[j] = 0

ContinuityDone == pc \in {"constraints", "constructed", "add_constraints", "done"} \/ (pc = "error" /\ g # <<>>)

\* C1: after every append operation of the constraint passes, the constraint
\* vector and its two bound vectors have the same length.
C1_SameLength ==
    /\ Len(g) = Len(g_bounds.min)
    /\ Len(g_bounds.min) = Len(g_bounds.max)

\* C1 witness: continuity, coincidence and proportional rows were all appended
C1_Witness ==
    /\ pc = "done"
    /\ RowsOfKind("cyclic") # {}
    /\ RowsOfKind("inter") # {}
    /\ RowsOfKind("MARKERS_TO_PAIR") # {}
    /\ RowsOfKind("PROPORTIONAL_CONTROL") # {}

\* C2: after the layout pass and the free-time pass, V, both bound vectors and
\* the initial guess have the same length: the sum over the phases of
\* nx*(ns+1) + nu*ns, plus the number of phases whose duration is free.
C2_DecisionVectorLength ==
    pc \in {"dynamics", "continuity"} =>
        LET n == Sum([i \in 1..nb_phases |-> PhaseSize(nlp[i])], nb_phases)
                 + Cardinality({i \in 1..nb_phases : nlp[i].tf = "MX"})
        IN /\ Len(V) = n
           /\ Len(V_bounds.min) = n
           /\ Len(V_bounds.max) = n
           /\ Len(V_init) = n

\* C3: for phases sharing nx, continuity_constraint emits sum(ns * nx)
\* intra-phase rows, nx rows per inter-phase boundary, and nx more rows if and
\* only if cyclic continuity is requested; all of them bounded [0, 0].
C3_ContinuityRows ==
    (ContinuityDone /\ \A i \in 1..nb_phases : nlp[i].nx = nlp[1].nx) =>
        /\ Cardinality(RowsOfKind("intra"))
             = Sum([i \in 1..nb_phases |-> nlp[i].ns * nlp[i].nx], nb_phases)
        /\ Cardinality(RowsOfKind("inter")) = nlp[1].nx * (nb_phases - 1)
        /\ Cardinality(RowsOfKind("cyclic"))
             = (IF is_cyclic_constraint THEN nlp[1].nx ELSE 0)
        /\ ZeroBounds(RowsOfKind("intra") \cup RowsOfKind("inter")
                      \cup RowsOfKind("cyclic"))

\* C3 witness: two phases linked, and closed cyclically
C3_Witness ==
    /\ pc = "constraints"
    /\ nb_phases = 2
    /\ nlp[1].nx = 2
    /\ nlp[1].ns # nlp[2].ns
    /\ is_cyclic_constraint
    /\ Len(g) = 2 * (nlp[1].ns + nlp[2].ns) + 4

AdjacentNxDiffer == \E i \in 1..nb_phases - 1 : nlp[i].nx # nlp[i + 1].nx

\* C4: when two adjacent phases have different nx, construction fails, and
\* when the error is raised no row and no bound has been appended to the
\* constraint vector.
C4_MismatchFailsEarly ==
    AdjacentNxDiffer =>
        /\ pc \in {"init_phase_time", "nodes", "variable_time", "dynamics", "error"}
        /\ g = <<>>
        /\ g_bounds.min = <<>>
        /\ g_bounds.max = <<>>
        /\ pc = "error" => err # "none"

\* C4 witness: the size test of the dynamics pass raised on the second phase
C4_Witness ==
    /\ AdjacentNxDiffer
    /\ pc = "error"
    /\ idx = 2
    /\ nlp[1].nu = nlp[2].nu
    /\ err = "RuntimeError: Dynamics with different nx or nu is not supported yet"

\* C5: a mid entry raises when ns is even; when ns is odd it is expanded
\* without error at the single node ns \div 2 + 1.
C5_MidSelector ==
    \A ie \in Processed :
        EntryOf(ie).instant = "MID" =>
            IF nlp[ie[1]].ns % 2 = 0
            THEN Raised(ie)
            ELSE /\ ~ Raised(ie)
                 /\ NodesOf(ie[1], ie[2]) \subseteq {nlp[ie[1]].ns \div 2 + 1}

\* C6: intermediates selects exactly the state nodes 1..ns-1, so a coincidence
\* entry at intermediates yields 3 * (ns - 1) rows.
C6_Intermediates ==
    \A ie \in Processed :
        (/\ EntryOf(ie).instant = "INTERMEDIATES"
         /\ EntryOf(ie).type = "MARKERS_TO_PAIR"
         /\ "dof_mapping" \in nlp[ie[1]].keys) =>
            /\ NodesOf(ie[1], ie[2]) = 1..(nlp[ie[1]].ns - 1)
            /\ Cardinality(RowsOf(ie[1], ie[2])) = 3 * (nlp[ie[1]].ns - 1)

\* the nodes with a control that an instant other than end and mid selects
\* (for intermediates: the controls add_constraints pairs with the states)
ControlNodes(p, instant) ==
    IF instant = "START" THEN {0}
    ELSE IF instant = "INTERMEDIATES" THEN 1..(p.ns - 2)
    ELSE IF instant = "ALL" THEN 0..(p.ns - 1)
    ELSE {}

\* C7: an inequality-contact-force entry at a selector other than end appends
\* one row per selected node that has a control.
C7_ContactForceRows ==
    \A ie \in Processed :
        (/\ EntryOf(ie).type = "CONTACT_FORCE_GREATER_THAN"
         /\ EntryOf(ie).instant \in {"START", "INTERMEDIATES", "ALL"}) =>
            /\ NodesOf(ie[1], ie[2]) = ControlNodes(nlp[ie[1]], EntryOf(ie).instant)
            /\ Cardinality(RowsOf(ie[1], ie[2]))
                 = Cardinality(ControlNodes(nlp[ie[1]], EntryOf(ie).instant))

EndErrors ==
    {"RuntimeError: A proportional control does not make sense at the last node (Instant.END)",
     "RuntimeError: Instant.END is used even though there is no control u at last node"}

NeedsControlAtEnd(elem) ==
    /\ elem.instant = "END"
    /\ elem.type \in {"PROPORTIONAL_CONTROL", "CONTACT_FORCE_GREATER_THAN"}

\* an entry was read in this step, and it needs a control at the end selector
ReadsControlAtEnd ==
    /\ pc = "add_constraints"
    /\ "constraints" \in nlp[idx].keys
    /\ Len(nlp'[idx].constraints) = Len(nlp[idx].constraints) + 1
    /\ NeedsControlAtEnd(nlp'[idx].constraints[Len(nlp'[idx].constraints)])

\* C8: a proportional-control or inequality-contact-force entry at the end
\* selector raises, and the constraint vector and its bounds stay as they
\* were before the entry was read.
C8_EndRaisesUnchanged ==
    [][ReadsControlAtEnd =>
          /\ pc' = "error"
          /\ err' \in EndErrors
          /\ g' = g
          /\ g_bounds' = g_bounds]_vars

\* C8 witness: such an entry raised after an earlier entry had appended rows
C8_Witness ==
    /\ pc = "error"
    /\ err \in EndErrors
    /\ Len(nlp[idx].constraints) = 2
    /\ NeedsControlAtEnd(nlp[idx].constraints[2])
    /\ RowsOf(idx, 1) # {}
    /\ RowsOf(idx, 2) = {}

\* C9: a coincidence entry expands to 3 rows bounded [0, 0] per selected state
\* node: 3 rows at start, 3 at end, 3 * (ns + 1) at all.
C9_CoincidenceRows ==
    \A ie \in Processed :
        LET p == nlp[ie[1]]
            elem == EntryOf(ie)
            J == RowsOf(ie[1], ie[2])
        IN (/\ elem.type = "MARKERS_TO_PAIR"
            /\ elem.instant \in {"START", "END", "ALL"}
            /\ "dof_mapping" \in p.keys) =>
             /\ NodesOf(ie[1], ie[2]) = (IF elem.instant = "START" THEN {0}
                                         ELSE IF elem.instant = "END" THEN {p.ns}
                                         ELSE 0..p.ns)
             /\ \A k \in NodesOf(ie[1], ie[2]) :
                   {g[j].row : j \in {jj \in J : g[jj].node = k}} = 1..3
             /\ Cardinality(J) = (IF elem.instant = "ALL" THEN 3 * (p.ns + 1) ELSE 3)
             /\ ZeroBounds(J)
             /\ \A j \in J : g[j].kind = "MARKERS_TO_PAIR"

\* C9 witness: coincidence at all nodes of a phase with ns = 2 gave 9 rows
C9_Witness ==
    /\ pc = "done"
    /\ nb_phases = 1
    /\ nlp[1].ns = 2
    /\ nlp[1].constraints = <<[type |-> "MARKERS_TO_PAIR", instant |-> "ALL",
                               policy |-> "marker_pair"]>>
    /\ Cardinality(RowsOf(1, 1)) = 9
    /\ Len(g) = Len(g_bounds.min)

DeclaresMinimizeTime(p) ==
    \E j \in 1..Len(p.objective_functions) : IsMinimizeTime(p.objective_functions[j])

DynamicsErrors ==
    {"RuntimeError: OdeSolver.COLLOCATION cannot be used while optimizing the time parameter",
     "RuntimeError: OdeSolver.CVODES cannot be used while optimizing the time parameter"}

\* C10: the dynamics transcription of a phase raises if and only if the phase
\* declares a minimize-time term and integrates with collocation or CVODES.
C10_FreeTimeNeedsRK ==
    \A i \in 1..nb_phases :
        (/\ pc \in {"dynamics", "continuity", "error"}
         /\ nlp[i].ode_solver # "unset"
         /\ SameSizeAsFirst(nlp, i)) =>
            /\ (pc = "error" /\ idx = i /\ err \in DynamicsErrors)
                 <=> (/\ DeclaresMinimizeTime(nlp[i])
                      /\ nlp[i].ode_solver \in {"COLLOCATION", "CVODES"})
            /\ nlp[i].dynamics = "unset"
                 <=> (/\ DeclaresMinimizeTime(nlp[i])
                      /\ nlp[i].ode_solver \in {"COLLOCATION", "CVODES"})

\* C10 witness: a free-duration phase integrated with CVODES raised, after a
\* free-duration phase integrated with RK4 did not
C10_Witness ==
    /\ pc = "error"
    /\ idx = 2
    /\ nlp[1].dynamics = "RK4"
    /\ DeclaresMinimizeTime(nlp[1])
    /\ nlp[2].ode_solver = "CVODES"
    /\ nlp[2].objective_functions = <<"OTHER", "Lagrange.MINIMIZE_TIME">>
    /\ err \in DynamicsErrors

\* the phases whose block is in V_bounds: the layout pass has run on them
LaidOut == {i \in 1..nb_phases :
              pc \notin {"init_phase_time", "nodes"} \/ (pc = "nodes" /\ i < idx)}

\* where the block of phase i starts in V_bounds (0-based)
PhaseBase(i) == Sum([j \in 1..nb_phases |-> IF j < i THEN PhaseSize(nlp[j]) ELSE 0],
                    nb_phases)

\* the n bounds from 0-based offset off on are the vector named name
BlockIs(vec, off, n, name) ==
    \A j \in 1..n : vec[off + j] = [src |-> name, j |-> j]

\* C13: the block of a phase in the bound vectors is state_0, control_0, ...,
\* state_ns; state block k starts at k*(nx+nu), control block k at
\* k*(nx+nu)+nx; node 0 carries the first-node bounds, nodes 1..ns-1 the
\* interior bounds, state_ns the last-node bounds.
C13_BoundsLayout ==
    \A i \in LaidOut :
        LET p == nlp[i]
            base == PhaseBase(i)
            stride == p.nx + p.nu
        IN /\ Len(V_bounds.min) >= base + PhaseSize(p)
           /\ Len(V_bounds.max) >= base + PhaseSize(p)
           /\ \A k \in 0..p.ns :
                LET xname == IF k = 0 THEN "X_bounds.first_node"
                             ELSE IF k = p.ns THEN "X_bounds.last_node"
                             ELSE "X_bounds"
                IN /\ BlockIs(V_bounds.min, base + k * stride, p.nx, xname)
                   /\ BlockIs(V_bounds.max, base + k * stride, p.nx, xname)
                   /\ p.X[k + 1].off = k * stride
           /\ \A k \in 0..p.ns - 1 :
                LET uname == IF k = 0 THEN "U_bounds.first_node" ELSE "U_bounds"
                IN /\ BlockIs(V_bounds.min, base + k * stride + p.nx, p.nu, uname)
                   /\ BlockIs(V_bounds.max, base + k * stride + p.nx, p.nu, uname)
                   /\ p.U[k + 1].off = k * stride + p.nx

\* C13 witness: the second of two phases, with interior nodes, is laid out
\* behind the first
C13_Witness ==
    /\ pc = "variable_time"
    /\ nb_phases = 2
    /\ nlp[1].ns = 1 /\ nlp[1].nx = 1 /\ nlp[1].nu = 2
    /\ nlp[2].ns = 3 /\ nlp[2].nx = 2 /\ nlp[2].nu = 1
    /\ Len(V_bounds.min) = 4 + 11
    /\ V_bounds.min[4 + 7] = [src |-> "X_bounds", j |-> 1]
    /\ V_bounds.min[4 + 9] = [src |-> "U_bounds", j |-> 1]
    /\ V_bounds.max[4 + 11] = [src |-> "X_bounds.last_node", j |-> 2]

\* the place of a row in the claimed order: its group, then phase, then node
\* (continuity) or entry (path constraints), then the row of the block
Key(r) ==
    IF r.kind = "intra" THEN <<1, r.ph, r.node, r.row>>
    ELSE IF r.kind = "inter" THEN <<2, r.ph, 0, r.row>>
    ELSE IF r.kind = "cyclic" THEN <<3, 0, 0, r.row>>
    ELSE <<4, r.ph, r.e, 0>>

LexLess(a, b) ==
    \E n \in 1..4 : a[n] < b[n] /\ \A m \in 1..n - 1 : a[m] = b[m]

C11_SaveKeepsProblem ==
    [][(pc \in {"constructed", "saved"} /\ pc' \in {"saved", "save_failed"}) =>
          /\ pc' = "saved"
          /\ \A i \in 1..nb_phases :
               /\ nlp'[i].keys = nlp[i].keys
               /\ nlp'[i].X = nlp[i].X
               /\ nlp'[i].U = nlp[i].U]_vars
====
